---- MODULE Spec2Model ----
(***************************************************************************)
(* Pareto dominance, nearest-neighbour contribution, multi-algorithm       *)
(* Pareto front comparison and the reflections log of hoangdarkdao/test-13.*)
(*                                                                         *)
(*   src/llm4ad/method/momcts/utils.py   save_json, dominates,             *)
(*                                       hypervolume_contribution          *)
(*   src/analysis/plot_pareto_front.py   compare_pareto_from_algorithms    *)
(*                                                                         *)
(* Four specifications, one per function, share the variables below; each  *)
(* holds the other functions' variables at their idle values.              *)
(***************************************************************************)
EXTENDS Integers, Sequences, FiniteSets

VARIABLES
    \* dominates(objective_a, objective_b)
    objective_a, objective_b, dom_result,
    \* hypervolume_contribution(objective, pareto_front)
    objective, pareto_front, hv_result,
    \* compare_pareto_from_algorithms(file_dict, show_global, max_fe, ...)
    file_dict, show_global, max_fe, pc, algo_fronts, all_scores, algo_labels,
    global_pf, contribution_count, contribution_points, status,
    \* save_json(...): the file reflections_log.json and the last call
    log_file, log_before, log_entry, log_status

domVars == <<objective_a, objective_b, dom_result>>
hvVars == <<objective, pareto_front, hv_result>>
aggVars == <<file_dict, show_global, max_fe, pc, algo_fronts, all_scores,
             algo_labels, global_pf, contribution_count, contribution_points,
             status>>
logVars == <<log_file, log_before, log_entry, log_status>>
vars == <<domVars, hvVars, aggVars, logVars>>

----------------------------------------------------------------------------
(* Bounds of the model *)

\* longest objective vector handed to dominates
MaxDim == 2
\* largest archive handed to hypervolume_contribution
MaxFront == 2
\* most score rows the files of all algorithms hold together
MaxPool == 3
\* most records save_json is let to append to one log
MaxLog == 2
\* longest reflection list handed to save_json
MaxRefl == 6

\* coordinate values handed to dominates
DomVals == 0..2
\* coordinate values handed to hypervolume_contribution
HVVals == (-19)..(-16)

RECURSIVE SeqsUpTo(_, _)
\* all sequences over S of length 0..n
SeqsUpTo(S, n) ==
    IF n = 0 THEN {<<>>}
    ELSE LET shorter == SeqsUpTo(S, n - 1)
         IN  shorter \cup {Append(s, x) : s \in {t \in shorter : Len(t) = n - 1}, x \in S}

DomIdle == objective_a = <<>> /\ objective_b = <<>> /\ dom_result = "idle"
HVIdle == objective = <<>> /\ pareto_front = <<>> /\ hv_result = -1
AggIdle ==
    /\ file_dict = <<>> /\ show_global = TRUE /\ max_fe = <<>> /\ pc = "idle"
    /\ algo_fronts = <<>> /\ all_scores = <<>> /\ algo_labels = <<>>
    /\ global_pf = <<>> /\ contribution_count = <<>>
    /\ contribution_points = <<>> /\ status = "idle"
LogIdle ==
    /\ log_file = [kind |-> "absent"] /\ log_before = [kind |-> "absent"]
    /\ log_entry = <<>> /\ log_status = "idle"

----------------------------------------------------------------------------
(* dominates: utils.py lines 38-46 *)

\* the mutant of the loop: line 42 written with >= instead of >
RECURSIVE dominatesLoopGe(_, _, _, _)
dominatesLoopGe(a, b, i, is_strictly_better) ==
    IF i > Len(a) THEN (IF is_strictly_better THEN "True" ELSE "False")
    ELSE IF i > Len(b) THEN "IndexError"
    ELSE IF a[i] >= b[i] THEN "False"
    ELSE dominatesLoopGe(a, b, i + 1, is_strictly_better \/ a[i] < b[i])

RECURSIVE dominatesLoop(_, _, _, _)
\* for i in range(len(objective_a)), from index i (1-based) on.  objective_b[i]
\* past the end of objective_b raises IndexError; objective_b's extra
\* coordinates are never read.
dominatesLoop(a, b, i, is_strictly_better) ==
    IF i > Len(a) THEN (IF is_strictly_better THEN "True" ELSE "False")
    ELSE IF i > Len(b) THEN "IndexError"
    ELSE IF a[i] > b[i] THEN "False"
    ELSE dominatesLoop(a, b, i + 1, is_strictly_better \/ a[i] < b[i])

\* "True", "False", or "IndexError" when the call raises
dominates(a, b) == dominatesLoop(a, b, 1, FALSE)

InitDominates ==
    /\ objective_a \in SeqsUpTo(DomVals, MaxDim)
    /\ objective_b \in SeqsUpTo(DomVals, MaxDim)
    /\ dom_result = "pending"
    /\ HVIdle /\ AggIdle /\ LogIdle

CallDominates ==
    /\ dom_result = "pending"
    /\ dom_result' = dominates(objective_a, objective_b)
    /\ UNCHANGED <<objective_a, objective_b, hvVars, aggVars, logVars>>

NextDominates == CallDominates

SpecDominates == InitDominates /\ [][NextDominates]_vars

\* C1: for equal-length vectors, dominates(a, b) is true exactly when a[i] <= b[i]
\* for every i and a[i] < b[i] for some i; so dominates(a, a) is false and
\* dominates(a, b), dominates(b, a) are never both true.
C1_DominatesIffNoWorseAndBetter ==
    (dom_result # "pending" /\ Len(objective_a) = Len(objective_b)) =>
        LET n == Len(objective_a)
            noWorse == \A i \in 1..n : objective_a[i] <= objective_b[i]
            better == \E i \in 1..n : objective_a[i] < objective_b[i]
        IN  /\ dom_result \in {"True", "False"}
            /\ (dom_result = "True") <=> (noWorse /\ better)
            /\ (objective_a = objective_b) => dom_result = "False"
            /\ ~(dom_result = "True" /\ dominates(objective_b, objective_a) = "True")

\* a returned True where one coordinate ties and the other is strictly better
C1_Witness ==
    /\ dom_result = "True"
    /\ Len(objective_a) = 2 /\ Len(objective_b) = 2
    /\ objective_a[1] = objective_b[1]
    /\ objective_a[2] < objective_b[2]

\* C2: vectors of different lengths make dominates fail with an error; no
\* boolean is returned from a truncated or padded comparison.
C2_UnequalLengthsRaise ==
    (dom_result # "pending" /\ Len(objective_a) # Len(objective_b)) =>
        dom_result \notin {"True", "False"}

----------------------------------------------------------------------------
(* hypervolume_contribution: utils.py lines 48-55 *)

RECURSIVE SqrtSearch(_, _, _)
\* the largest r in lo..hi with r * r <= n, by bisection
SqrtSearch(n, lo, hi) ==
    IF lo >= hi THEN lo
    ELSE LET mid == (lo + hi + 1) \div 2
         IN  IF mid * mid <= n THEN SqrtSearch(n, mid, hi)
             ELSE SqrtSearch(n, lo, mid - 1)

\* x ** 0.5 of line 52 for an integer x >= 0, in thousandths, rounded down:
\* Sqrt(5) = 2236
Sqrt(x) == SqrtSearch(x * 1000000, 0, 1000 * (x + 1))

RECURSIVE SumSquares(_, _, _)
\* sum([(objective[i] - other.score[i])**2 for i in range(len(objective))])
SumSquares(obj, score, i) ==
    IF i > Len(obj) THEN 0
    ELSE (obj[i] - score[i]) * (obj[i] - score[i]) + SumSquares(obj, score, i + 1)

\* the list `distances` of lines 51-54
distances(obj, front) ==
    [k \in 1..Len(front) |-> Sqrt(SumSquares(obj, front[k].score, 1))]

\* the mutant of min: the farthest point instead of the nearest
ListMax(xs) == CHOOSE m \in {xs[k] : k \in 1..Len(xs)} :
                   \A k \in 1..Len(xs) : xs[k] <= m

\* min(distances) of line 55
ListMin(xs) == CHOOSE m \in {xs[k] : k \in 1..Len(xs)} :
                   \A k \in 1..Len(xs) : m <= xs[k]

\* a distance in thousandths; 0 for `if not pareto_front: return 0.0`
hypervolume_contribution(obj, front) ==
    IF front = <<>> THEN 0 ELSE ListMin(distances(obj, front))

\* the archive holds Function objects; only their score is read
HVPoints == {<<x, y>> : x \in HVVals, y \in HVVals}
HVFunctions == {[score |-> p] : p \in HVPoints}

InitContribution ==
    /\ objective \in HVPoints
    /\ pareto_front \in SeqsUpTo(HVFunctions, MaxFront)
    /\ hv_result = -1
    /\ DomIdle /\ AggIdle /\ LogIdle

CallContribution ==
    /\ hv_result = -1
    /\ hv_result' = hypervolume_contribution(objective, pareto_front)
    /\ UNCHANGED <<objective, pareto_front, domVars, aggVars, logVars>>

NextContribution == CallContribution

SpecContribution == InitContribution /\ [][NextContribution]_vars

\* the squared Euclidean distance from the candidate to archive point k
SqDist(k) == SumSquares(objective, pareto_front[k].score, 1)

\* C8: hypervolume_contribution returns 0.0 for an empty front, and otherwise
\* the square root of the squared distance to a front point whose squared
\* distance to the candidate is minimal; [-16,-16] against {[-18,-17],[-17,-19]}
\* takes squared distance 5 (2.236), not 10.
C8_NearestFrontPointDistance ==
    (hv_result # -1) =>
        /\ (pareto_front = <<>>) => hv_result = 0
        /\ (pareto_front # <<>>) =>
              \E k \in 1..Len(pareto_front) :
                  /\ \A j \in 1..Len(pareto_front) : SqDist(k) <= SqDist(j)
                  /\ hv_result * hv_result <= 1000000 * SqDist(k)
                  /\ (hv_result + 1) * (hv_result + 1) > 1000000 * SqDist(k)
        /\ ( /\ objective = <<-16, -16>>
             /\ pareto_front = <<[score |-> <<-18, -17>>], [score |-> <<-17, -19>>]>> )
           => hv_result = 2236

\* the scenario's call has returned
C8_Witness ==
    /\ hv_result = 2236
    /\ objective = <<-16, -16>>
    /\ pareto_front = <<[score |-> <<-18, -17>>], [score |-> <<-17, -19>>]>>

----------------------------------------------------------------------------
(* save_json: utils.py lines 7-35 *)

\* the 5 of good_reflections[-5:] and bad_reflections[-5:]
KeepLast == 5

\* xs[-KeepLast:]
LastItems(xs) ==
    IF Len(xs) <= KeepLast THEN xs ELSE SubSeq(xs, Len(xs) - KeepLast + 1, Len(xs))

\* the reflections r1, r2, ..., rn, oldest first
Reflections(n) == [k \in 1..n |-> k]

\* What reflections_log.json can hold when save_json opens it:
\*   absent    os.path.exists is false
\*   list      a JSON array, its items in data
\*   notjson   text json.load rejects with JSONDecodeError (empty, cut short)
\*   object    valid JSON that is no array, such as {} or "x" or 3
\*   badutf8   bytes open(..., encoding="utf-8") cannot decode
LogContents ==
    {[kind |-> "absent"], [kind |-> "list", data |-> <<>>], [kind |-> "notjson"],
     [kind |-> "object"], [kind |-> "badutf8"]}

\* lines 12-19
NewEntry(iteration, timestamp, hv_score, long_term_guide, good, bad) ==
    [iteration |-> iteration, timestamp |-> timestamp, current_hv |-> hv_score,
     long_term_guide |-> long_term_guide,
     recent_good_reflections |-> LastItems(good),
     recent_bad_reflections |-> LastItems(bad)]

\* lines 21-28: the outcome of reading the existing log.  json.load raises
\* UnicodeDecodeError (not caught: only JSONDecodeError is) on bytes that are
\* not UTF-8, and returns whatever value the JSON text denotes.
LoadData(f) ==
    CASE f.kind = "absent" -> [raised |-> "no", data |-> <<>>, is_list |-> TRUE]
      [] f.kind = "notjson" -> [raised |-> "no", data |-> <<>>, is_list |-> TRUE]
      [] f.kind = "list" -> [raised |-> "no", data |-> f.data, is_list |-> TRUE]
      [] f.kind = "object" -> [raised |-> "no", data |-> <<>>, is_list |-> FALSE]
      [] f.kind = "badutf8" -> [raised |-> "UnicodeDecodeError", data |-> <<>>,
                                is_list |-> FALSE]

InitLog ==
    /\ log_file \in LogContents
    /\ log_before = log_file
    /\ log_entry = <<>>
    /\ log_status = "none"
    /\ DomIdle /\ HVIdle /\ AggIdle

\* one call of save_json; data.append on a value that is no list raises
\* AttributeError before the file is opened for writing
save_json(iteration, timestamp, hv_score, long_term_guide, good, bad) ==
    LET entry == NewEntry(iteration, timestamp, hv_score, long_term_guide, good, bad)
        loaded == LoadData(log_file)
    IN  /\ (log_file.kind = "list") => Len(log_file.data) < MaxLog
        /\ log_before' = log_file
        /\ log_entry' = entry
        /\ IF loaded.raised # "no"
           THEN log_status' = loaded.raised /\ UNCHANGED log_file
           ELSE IF ~loaded.is_list
           THEN log_status' = "AttributeError" /\ UNCHANGED log_file
           ELSE /\ log_file' = [kind |-> "list", data |-> Append(loaded.data, entry)]
                /\ log_status' = "ok"
        /\ UNCHANGED <<domVars, hvVars, aggVars>>

NextLog ==
    \E iteration \in 0..1, n_good \in 0..MaxRefl, n_bad \in {0, MaxRefl} :
        save_json(iteration, "now", 0, "guide", Reflections(n_good), Reflections(n_bad))

SpecLog == InitLog /\ [][NextLog]_vars

\* C10: every save_json call succeeds and leaves the log equal to the records
\* it held before, in order, followed by the call's one new record; a log that
\* was absent, or held anything but a readable list of records, is left
\* holding exactly the new record.
C10_AppendOrStartFresh ==
    (log_status # "none") =>
        /\ log_status = "ok"
        /\ log_file.kind = "list"
        /\ log_file.data = IF log_before.kind = "list"
                           THEN Append(log_before.data, log_entry)
                           ELSE <<log_entry>>

----------------------------------------------------------------------------
(* compare_pareto_from_algorithms: plot_pareto_front.py lines 9-166 *)

\* Scores are held in units of 1e-8, so -1800000002 is -18.00000002.  The four
\* rows: two that differ by 2e-8 in each objective and do not dominate one
\* another, one that both dominate, and one far from and incomparable with
\* the other three.
ScorePoints ==
    {<<-1800000002, -1700000000>>, <<-1800000000, -1700000002>>,
     <<-1750000000, -1600000000>>, <<-1700000000, -1900000000>>}

\* how many score files an algorithm may list
FileCounts == {0, 1, 2}

\* the algorithm names, in the order file_dict lists them
AlgoNames == <<"A", "B">>

\* np.allclose(..., atol=1e-8), in units of 1e-8
Atol == 1
\* np.allclose's default rtol=1e-5, which the call leaves in force: 1 / rtol
RtolInverse == 100000

Abs(x) == IF x < 0 THEN -x ELSE x
MinOf(x, y) == IF x <= y THEN x ELSE y
MaxOf(x, y) == IF x >= y THEN x ELSE y

RECURSIVE TotalRows(_)
TotalRows(file_list) ==
    IF file_list = <<>> THEN 0 ELSE Len(Head(file_list)) + TotalRows(Tail(file_list))

\* the file lists of at most n rows one algorithm may come with; a file is
\* named by the rows read_score_from_path returns for it
FileLists(n) ==
    {fl \in UNION {[1..c -> SeqsUpTo(ScorePoints, n)] : c \in FileCounts} :
        TotalRows(fl) <= n}

FileListsTable == [n \in 0..MaxPool |-> FileLists(n)]

\* the file_dict values for the two algorithms: at most MaxPool rows in all
FileDicts ==
    UNION {{<<[algo |-> AlgoNames[1], file_list |-> fa],
              [algo |-> AlgoNames[2], file_list |-> fb]>> :
                fb \in FileListsTable[MaxPool - TotalRows(fa)]} :
           fa \in FileListsTable[MaxPool]}

\* the score source: the rows at a path, an empty sequence when it has none
read_score_from_path(file_path) == file_path

RECURSIVE ConcatScores(_)
\* lines 37-43: algo_scores.extend(scores) for each file with rows
ConcatScores(file_list) ==
    IF file_list = <<>> THEN <<>>
    ELSE LET scores == read_score_from_path(Head(file_list))
         IN  IF Len(scores) = 0 THEN ConcatScores(Tail(file_list))
             ELSE scores \o ConcatScores(Tail(file_list))

\* the mutant of the limit: the last max_fe rows instead of the first
ApplyLimitLast(algo_scores, limit) ==
    IF limit = <<>> THEN algo_scores
    ELSE SubSeq(algo_scores, MaxOf(Len(algo_scores) - limit[1], 0) + 1, Len(algo_scores))

\* lines 50-51: algo_scores[:max_fe] when max_fe is not None.  limit is <<>>
\* for None and <<k>> for the integer k; a negative k drops the last -k rows.
ApplyLimit(algo_scores, limit) ==
    IF limit = <<>> THEN algo_scores
    ELSE IF limit[1] >= 0
         THEN SubSeq(algo_scores, 1, MinOf(limit[1], Len(algo_scores)))
         ELSE SubSeq(algo_scores, 1, MaxOf(Len(algo_scores) + limit[1], 0))

\* the frontier extractor: the rows no other row dominates, in input order,
\* equal rows all kept; empty for an empty input
find_pareto_front_from_scores(scores) ==
    LET kept(v) == \A j \in 1..Len(scores) : dominates(scores[j], v) # "True"
    IN  SelectSeq(scores, kept)

\* f with key k set to v
Put(f, k, v) == [x \in (DOMAIN f) \cup {k} |-> IF x = k THEN v ELSE f[x]]

RECURSIVE LocalLoop(_, _, _, _)
\* lines 36-91, from entry i of file_dict on.  An algorithm with no rows is
\* skipped (lines 45-47) before the limit is applied (lines 50-51).  Rows cut
\* to nothing by the limit make np.array an empty one-dimensional array: its
\* front is recorded (line 56) and pareto_front[:, 0] (line 68) raises
\* IndexError, so lines 90-91 are not reached for it.
LocalLoop(fd, limit, i, acc) ==
    IF i > Len(fd) THEN acc
    ELSE LET algo == fd[i].algo
             collected == ConcatScores(fd[i].file_list)
             algo_scores == ApplyLimit(collected, limit)
             front == find_pareto_front_from_scores(algo_scores)
             fronts == Put(acc.algo_fronts, algo, front)
         IN  IF Len(collected) = 0 THEN LocalLoop(fd, limit, i + 1, acc)
             ELSE IF Len(algo_scores) = 0
             THEN [acc EXCEPT !.algo_fronts = fronts, !.raised = "IndexError"]
             ELSE LocalLoop(fd, limit, i + 1,
                      [algo_fronts |-> fronts,
                       all_scores |-> Append(acc.all_scores, algo_scores),
                       algo_labels |-> acc.algo_labels \o
                                       [k \in 1..Len(algo_scores) |-> algo],
                       raised |-> "no"])

RECURSIVE VStack(_)
\* np.vstack(all_scores), line 102
VStack(blocks) == IF blocks = <<>> THEN <<>> ELSE Head(blocks) \o VStack(Tail(blocks))

\* pymoo's domination matrix entry: 1 when row a dominates row b, -1 when b
\* dominates a, 0 otherwise (smaller = any(a < b), larger = any(a > b))
DominationRelation(a, b) ==
    LET smaller == \E i \in 1..Len(a) : a[i] < b[i]
        larger == \E i \in 1..Len(a) : a[i] > b[i]
    IN  IF smaller /\ ~larger THEN 1
        ELSE IF larger /\ ~smaller THEN -1
        ELSE 0

\* NonDominatedSorting().do(F, only_non_dominated_front=True), line 103: the
\* indices of the rows that no row dominates, ascending
NonDominatedSorting(F) ==
    LET n_dominated(j) == Cardinality({i \in 1..Len(F) : DominationRelation(F[i], F[j]) = 1})
        idx(j) == n_dominated(j) = 0
    IN  SelectSeq([j \in 1..Len(F) |-> j], idx)

\* the mutant of the global front: the local fronts of the algorithms, joined
GlobalFrontOfLocalFronts(blocks) ==
    VStack([k \in 1..Len(blocks) |-> find_pareto_front_from_scores(blocks[k])])

\* lines 102-104: global_pf = all_scores[nd_idx] over the stacked rows
GlobalFront(blocks) ==
    LET stacked == VStack(blocks)
        nd_idx == NonDominatedSorting(stacked)
    IN  [k \in 1..Len(nd_idx) |-> stacked[nd_idx[k]]]

\* np.allclose(score, point, atol=1e-8), line 112: every coordinate has
\* |score - point| <= atol + rtol * |point|
AllClose(score, point) ==
    \A i \in 1..Len(point) :
        Abs(score[i] - point[i]) <= Atol + (Abs(point[i]) \div RtolInverse)

\* the mutant of the match loop: no break, every matching row is credited
CreditedRowsNoBreak(point, scores, labels) ==
    {i \in 1..MinOf(Len(scores), Len(labels)) : AllClose(scores[i], point)}

\* lines 111-115: the rows of zip(all_scores, algo_labels) credited for point:
\* the first that matches, and none after it (break)
CreditedRows(point, scores, labels) ==
    LET matches == {i \in 1..MinOf(Len(scores), Len(labels)) : AllClose(scores[i], point)}
    IN  {i \in matches : \A j \in matches : i <= j}

RECURSIVE Attribute(_, _, _, _, _)
\* lines 110-115, from point k of global_pf on
Attribute(pf, scores, labels, k, acc) ==
    IF k > Len(pf) THEN acc
    ELSE LET credited == CreditedRows(pf[k], scores, labels)
             n(algo) == Cardinality({i \in credited : labels[i] = algo})
         IN  Attribute(pf, scores, labels, k + 1,
                 [count |-> [a \in DOMAIN acc.count |-> acc.count[a] + n(a)],
                  points |-> [a \in DOMAIN acc.points |->
                                 acc.points[a] \o [m \in 1..n(a) |-> pf[k]]]])

\* file_dict.keys()
Keys(fd) == {fd[i].algo : i \in 1..Len(fd)}

InitAggregate ==
    /\ file_dict \in FileDicts
    /\ show_global \in BOOLEAN
    /\ max_fe \in {<<>>} \cup {<<k>> : k \in 0..MaxPool}
    /\ pc = "local"
    /\ algo_fronts = <<>> /\ all_scores = <<>> /\ algo_labels = <<>>
    /\ global_pf = <<>> /\ contribution_count = <<>> /\ contribution_points = <<>>
    /\ status = "running"
    /\ DomIdle /\ HVIdle /\ LogIdle

\* Step 1, lines 26-94: the local fronts, then `if not all_scores: raise ValueError`
LocalParetoAnalysis ==
    /\ pc = "local"
    /\ LET out == LocalLoop(file_dict, max_fe, 1,
                      [algo_fronts |-> <<>>, all_scores |-> <<>>,
                       algo_labels |-> <<>>, raised |-> "no"])
       IN  /\ algo_fronts' = out.algo_fronts
           /\ all_scores' = out.all_scores
           /\ algo_labels' = out.algo_labels
           /\ IF out.raised # "no"
              THEN status' = out.raised /\ pc' = "done"
              ELSE IF out.all_scores = <<>>
              THEN status' = "ValueError" /\ pc' = "done"
              ELSE status' = "running" /\ pc' = "global"
    /\ UNCHANGED <<file_dict, show_global, max_fe, global_pf, contribution_count,
                   contribution_points, domVars, hvVars, logVars>>

\* Steps 2 and 3, lines 97-166: the global front and its attribution when
\* show_global, then the plot
GlobalParetoAnalysis ==
    /\ pc = "global"
    /\ IF show_global
       THEN LET stacked == VStack(all_scores)
                pf == GlobalFront(all_scores)
                zero == [count |-> [a \in Keys(file_dict) |-> 0],
                         points |-> [a \in Keys(file_dict) |-> <<>>]]
                out == Attribute(pf, stacked, algo_labels, 1, zero)
            IN  /\ all_scores' = stacked
                /\ global_pf' = pf
                /\ contribution_count' = out.count
                /\ contribution_points' = out.points
       ELSE UNCHANGED <<all_scores, global_pf, contribution_count, contribution_points>>
    /\ status' = "returned"
    /\ pc' = "done"
    /\ UNCHANGED <<file_dict, show_global, max_fe, algo_fronts, algo_labels,
                   domVars, hvVars, logVars>>

NextAggregate == LocalParetoAnalysis \/ GlobalParetoAnalysis

SpecAggregate == InitAggregate /\ [][NextAggregate]_vars

(* What the claims say of a call, computed from its inputs *)

\* source i's rows, its score collections concatenated in order
SourceRows(i) == ConcatScores(file_dict[i].file_list)

\* the first k entries of a sequence (all of it when it has fewer)
FirstEntries(rows, k) == SubSeq(rows, 1, MinOf(k, Len(rows)))

\* source i's rows after the limit truncation
TruncatedRows(i) ==
    IF max_fe = <<>> THEN SourceRows(i) ELSE FirstEntries(SourceRows(i), max_fe[1])

RECURSIVE PooledFrom(_)
\* the truncated rows of sources i, i+1, ... in their supplied order
PooledFrom(i) ==
    IF i > Len(file_dict) THEN <<>> ELSE TruncatedRows(i) \o PooledFrom(i + 1)

RECURSIVE PooledLabelsFrom(_)
\* the source label of each row of PooledFrom(i)
PooledLabelsFrom(i) ==
    IF i > Len(file_dict) THEN <<>>
    ELSE [k \in 1..Len(TruncatedRows(i)) |-> file_dict[i].algo] \o PooledLabelsFrom(i + 1)

\* a call that returned after computing the global front
ReturnedGlobal == status = "returned" /\ show_global

RECURSIVE SumCounts(_, _)
SumCounts(count, keys) ==
    IF keys = {} THEN 0
    ELSE LET a == CHOOSE x \in keys : TRUE
         IN  count[a] + SumCounts(count, keys \ {a})

\* C3: a source left with no rows after the limit truncation (a source with
\* rows cut by limit 0 too) is skipped: no per-source frontier, no pooled row,
\* and no key in the attribution counts or points.
C3_EmptySourcesExcluded ==
    (pc = "done") =>
        \A i \in 1..Len(file_dict) :
            (TruncatedRows(i) = <<>>) =>
                /\ file_dict[i].algo \notin DOMAIN algo_fronts
                /\ \A k \in 1..Len(algo_labels) : algo_labels[k] # file_dict[i].algo
                /\ file_dict[i].algo \notin DOMAIN contribution_count
                /\ file_dict[i].algo \notin DOMAIN contribution_points

\* C4: when no source has a row after concatenation and truncation, the call
\* fails with the EmptyInput error (the ValueError of line 94) and computes no
\* global frontier or attribution.
C4_NoRowsRaisesEmptyInput ==
    (pc = "done" /\ \A i \in 1..Len(file_dict) : TruncatedRows(i) = <<>>) =>
        /\ status = "ValueError"
        /\ global_pf = <<>>
        /\ DOMAIN contribution_count = {}

\* C5: after a call that computed the global frontier, the attributed counts
\* sum to the number of global-frontier points and each source's count is the
\* length of its attributed points list.
C5_AttributionConservation ==
    ReturnedGlobal =>
        /\ DOMAIN contribution_count = Keys(file_dict)
        /\ DOMAIN contribution_points = Keys(file_dict)
        /\ SumCounts(contribution_count, Keys(file_dict)) = Len(global_pf)
        /\ \A a \in Keys(file_dict) : contribution_count[a] = Len(contribution_points[a])

\* two sources pooled rows that match within tolerance, and both sources are
\* credited with a global-frontier point
C5_Witness ==
    /\ ReturnedGlobal
    /\ Len(global_pf) >= 2
    /\ \A a \in Keys(file_dict) : contribution_count[a] >= 1
    /\ \E i, j \in 1..Len(all_scores) :
          /\ i < j
          /\ algo_labels[i] # algo_labels[j]
          /\ AllClose(all_scores[i], all_scores[j])

C7_GlobalFrontNotDominatedByPool ==
    ReturnedGlobal =>
        /\ all_scores = PooledFrom(1)
        /\ \A k \in 1..Len(global_pf) :
              /\ \E j \in 1..Len(all_scores) : all_scores[j] = global_pf[k]
              /\ \A j \in 1..Len(all_scores) :
                    dominates(all_scores[j], global_pf[k]) # "True"

\* a row on its own source's frontier is kept off the global frontier by a row
\* of the other source, and the global frontier holds rows of both sources
C7_Witness ==
    /\ ReturnedGlobal
    /\ \E a \in DOMAIN algo_fronts :
          \E k \in 1..Len(algo_fronts[a]) :
              /\ \A m \in 1..Len(global_pf) : global_pf[m] # algo_fronts[a][k]
              /\ \E j \in 1..Len(all_scores) :
                    /\ algo_labels[j] # a
                    /\ dominates(all_scores[j], algo_fronts[a][k]) = "True"
    /\ \A a \in Keys(file_dict) : contribution_count[a] >= 1

\* coordinate-wise |x - y| <= 1e-8
WithinAbsoluteTolerance(score, point) ==
    \A i \in 1..Len(point) : Abs(score[i] - point[i]) <= Atol

\* the label of the first pooled row within the absolute tolerance of point
FirstWithinToleranceLabel(point) ==
    LET pool == PooledFrom(1)
        first == CHOOSE i \in 1..Len(pool) :
                     /\ WithinAbsoluteTolerance(pool[i], point)
                     /\ \A j \in 1..(i - 1) : ~WithinAbsoluteTolerance(pool[j], point)
    IN  PooledLabelsFrom(1)[first]

\* C9: each global-frontier point is credited to the source of the first
\* pooled row, in pooling order, within 1e-8 of it in every coordinate, and to
\* no other source; a row farther than 1e-8 in some coordinate is never
\* credited for it.
C9_FirstMatchWithinAbsoluteTolerance ==
    ReturnedGlobal =>
        \A a \in Keys(file_dict) :
            LET mine(point) == FirstWithinToleranceLabel(point) = a
            IN  contribution_points[a] = SelectSeq(global_pf, mine)

====
